---------------------------- MODULE Spec2Model ----------------------------
(***************************************************************************)
(* A model of ebridges/transaction-processor: the QIF record model and     *)
(* codec (qif_parser.py), the lookup store (category_manager.py) and the   *)
(* matcher and categorization loop (process_transactions.py).              *)
(*                                                                         *)
(* Python strings are TLA+ strings (sequences of characters); an           *)
(* OrderedDict is a sequence of <<key, value>> pairs with distinct keys,   *)
(* in insertion order; the lookup dict {category: [rule, ...]} is a        *)
(* sequence of records [category, patterns] in the dict's insertion        *)
(* (= iteration) order.                                                    *)
(***************************************************************************)
EXTENDS Integers, Sequences, FiniteSets, TLC

VARIABLES
    lookup_file,       \* the lookup JSON file: [exists, data]
    lookup_data,       \* CategoryManager.lookup_data
    categories_list,   \* CategoryManager.categories_list
    account_info,      \* QIFParser.account_info (OrderedDict)
    transactions,      \* QIFParser.transactions (list of OrderedDict)
    transaction_type,  \* QIFParser.transaction_type
    pc,                \* the position of the running code
    arg,               \* the arguments and inputs the run was given
    local,             \* local variables of the function being run
    ret,               \* what the code returned or wrote
    log                \* history of the run, read only by the properties

vars == <<lookup_file, lookup_data, categories_list, account_info,
          transactions, transaction_type, pc, arg, local, ret, log>>

mgrVars == <<lookup_file, lookup_data, categories_list>>
qifVars == <<account_info, transactions, transaction_type>>

\* Python's None where a string is expected; no string of the model equals it.
None == "<None>"

-----------------------------------------------------------------------------
(* Strings *)

Char(s, k) == SubSeq(s, k, k)

\* str.strip() strips these (the ASCII whitespace the inputs below use).
Whitespace == {" ", "\t"}

RECURSIVE lstrip(_)
lstrip(s) ==
    IF Len(s) > 0 /\ Char(s, 1) \in Whitespace THEN lstrip(Tail(s)) ELSE s

RECURSIVE rstrip(_)
rstrip(s) ==
    IF Len(s) > 0 /\ Char(s, Len(s)) \in Whitespace
    THEN rstrip(SubSeq(s, 1, Len(s) - 1))
    ELSE s

strip(s) == rstrip(lstrip(s))

\* str.lower() on one character, for the letters the inputs below use.
LowerChar(c) ==
    CASE c = "A" -> "a" [] c = "B" -> "b" [] c = "C" -> "c" [] c = "D" -> "d"
      [] c = "E" -> "e" [] c = "I" -> "i" [] c = "M" -> "m" [] c = "P" -> "p"
      [] c = "S" -> "s" [] c = "V" -> "v" [] c = "W" -> "w"
      [] OTHER -> c

RECURSIVE lower(_)
lower(s) == IF Len(s) = 0 THEN s ELSE LowerChar(Char(s, 1)) \o lower(Tail(s))

\* Python's `sub in s`.
contains(sub, s) ==
    \E off \in 0..(Len(s) - Len(sub)) : SubSeq(s, off + 1, off + Len(sub)) = sub

startswith(s, prefix) ==
    Len(prefix) <= Len(s) /\ SubSeq(s, 1, Len(prefix)) = prefix

endswith(s, suffix) ==
    Len(suffix) <= Len(s) /\ SubSeq(s, Len(s) - Len(suffix) + 1, Len(s)) = suffix

\* str.split(sep) for a one-character separator: the list of the tokens.
RECURSIVE split(_, _)
split(s, sep) ==
    IF \A k \in 1..Len(s) : Char(s, k) # sep
    THEN <<s>>
    ELSE LET k == CHOOSE n \in 1..Len(s) :
                      Char(s, n) = sep /\ \A m \in 1..(n - 1) : Char(s, m) # sep
         IN  <<SubSeq(s, 1, k - 1)>> \o split(SubSeq(s, k + 1, Len(s)), sep)

\* re.search(pattern, s) for the patterns of the model: every character stands
\* for itself except ".", which stands for any character; the search is
\* unanchored and case-sensitive, and the empty pattern is found in every s.
re_search(pattern, s) ==
    \E off \in 0..(Len(s) - Len(pattern)) :
        \A k \in 1..Len(pattern) :
            Char(pattern, k) = "." \/ Char(pattern, k) = Char(s, off + k)

truthy(s) == s # None /\ s # ""

-----------------------------------------------------------------------------
(* Matcher: process_transactions.py *)

match_pattern_CaseSensitive(pattern, payee) ==
    IF pattern.type = "regex" THEN re_search(pattern.payee, payee)
    ELSE IF pattern.type = "literal" THEN contains(pattern.payee, payee)
    ELSE FALSE

match_pattern(pattern, payee) ==
    IF pattern.type = "regex" THEN re_search(pattern.payee, payee)
    ELSE IF pattern.type = "literal"
         THEN contains(lower(pattern.payee), lower(payee))
    ELSE FALSE

\* The for loop of categorize_transaction from the k-th category on.
RECURSIVE scan_lookup(_, _, _)
scan_lookup(payee, lookup, k) ==
    IF k > Len(lookup) THEN None
    ELSE IF \E j \in 1..Len(lookup[k].patterns) :
                match_pattern(lookup[k].patterns[j], payee)
         THEN lookup[k].category
         ELSE scan_lookup(payee, lookup, k + 1)

categorize_transaction_NoBlankCheck(payee, lookup) == scan_lookup(payee, lookup, 1)

categorize_transaction_EmptyOnly(payee, lookup) ==
    IF payee = "" THEN None ELSE scan_lookup(payee, lookup, 1)

categorize_transaction(payee, lookup) ==
    IF strip(payee) = "" THEN None ELSE scan_lookup(payee, lookup, 1)

\* The rules any(...) hands to match_pattern for one category, from the j-th
\* on: the generator stops at the first rule that matches.
RECURSIVE any_trace(_, _, _)
any_trace(payee, patterns, j) ==
    IF j > Len(patterns) THEN <<>>
    ELSE IF match_pattern(patterns[j], payee) THEN <<patterns[j]>>
    ELSE <<patterns[j]>> \o any_trace(payee, patterns, j + 1)

\* The rules the for loop evaluates from the k-th category on: it returns at
\* the first category one of whose rules matched.
RECURSIVE scan_trace(_, _, _)
scan_trace(payee, lookup, k) ==
    IF k > Len(lookup) THEN <<>>
    ELSE IF \E j \in 1..Len(lookup[k].patterns) :
                match_pattern(lookup[k].patterns[j], payee)
         THEN any_trace(payee, lookup[k].patterns, 1)
         ELSE lookup[k].patterns \o scan_trace(payee, lookup, k + 1)

\* The calls of match_pattern one call of categorize_transaction makes, in
\* order.
categorize_trace(payee, lookup) ==
    IF strip(payee) = "" THEN <<>> ELSE scan_trace(payee, lookup, 1)

-----------------------------------------------------------------------------
(* Bounded inputs *)

\* The longest rule list a category of a drawn store holds.
MaxRules == 2

SeqsUpTo(S, n) == UNION {[1..k -> S] : k \in 0..n}

Distinct(s) == \A a, b \in 1..Len(s) : a # b => s[a] # s[b]

MatchCategories == {"Expenses:Utilities", "Income:Salary"}

MatchRules ==
    {[payee |-> "webid", type |-> "literal"],
     [payee |-> "web id", type |-> "literal"],
     [payee |-> "WEB", type |-> "regex"],
     [payee |-> "w.b", type |-> "regex"],
     [payee |-> "EDI", type |-> "glob"]}

MatchPayees ==
    {"PCS SVC WEB ID: 0000", "EDI PYMNTS", "web", " ", ""}

\* Every store over the given categories, in every key order, whose rule
\* lists hold at most n of the given rules.
Stores(cats, rules, n) ==
    {[k \in 1..Len(order) |->
          [category |-> order[k], patterns |-> lists[order[k]]]] :
        order \in {o \in SeqsUpTo(cats, Cardinality(cats)) : Distinct(o)},
        lists \in [cats -> SeqsUpTo(rules, n)]}

-----------------------------------------------------------------------------
(* SpecMatch: categorize_transaction on every drawn payee and store *)

InitMatch ==
    /\ pc = "categorize_transaction"
    /\ arg \in [payee : MatchPayees]
    /\ lookup_data \in Stores(MatchCategories, MatchRules, MaxRules)
    /\ lookup_file = [exists |-> FALSE, data |-> <<>>]
    /\ categories_list = <<>>
    /\ account_info = <<>> /\ transactions = <<>> /\ transaction_type = None
    /\ local = <<>> /\ ret = None /\ log = <<>>

Categorize ==
    /\ pc = "categorize_transaction"
    /\ ret' = categorize_transaction(arg.payee, lookup_data)
    /\ pc' = "returned"
    /\ UNCHANGED <<mgrVars, qifVars, arg, local, log>>

NextMatch == Categorize

SpecMatch == InitMatch /\ [][NextMatch]_vars


\* A literal rule as the specification words it: at some offset of the payee
\* every character of the pattern equals the payee's, both lowercased.
LiteralFound(pattern, payee) ==
    \E off \in 0..(Len(payee) - Len(pattern)) :
        \A k \in 1..Len(pattern) :
            LowerChar(Char(pattern, k)) = LowerChar(Char(payee, off + k))

RuleHolds(rule, payee) ==
    \/ rule.type = "literal" /\ LiteralFound(rule.payee, payee)
    \/ rule.type = "regex" /\ re_search(rule.payee, payee)

CategoryHit(lookup, k, payee) ==
    \E j \in 1..Len(lookup[k].patterns) : RuleHolds(lookup[k].patterns[j], payee)

NonBlank(s) == \E k \in 1..Len(s) : Char(s, k) \notin Whitespace

OnlyRule(lookup, rule) ==
    Len(lookup) = 1 /\ lookup[1].patterns = <<rule>>

\* C3: for a non-blank payee categorize_transaction returns the first category,
\* in the store's iteration order, holding a rule that matches, and none when
\* no rule matches; a literal rule matches exactly when the lowercased pattern
\* occurs in the lowercased payee ("webid" is not found in
\* "PCS SVC WEB ID: 0000", "web id" is), and a rule of another kind than
\* regex and literal never matches.
C3_FirstMatchingCategory ==
    (pc = "returned" /\ NonBlank(arg.payee)) =>
        LET hits == {k \in 1..Len(lookup_data) :
                        CategoryHit(lookup_data, k, arg.payee)}
        IN  /\ hits = {} => ret = None
            /\ hits # {} =>
                 ret = lookup_data[CHOOSE k \in hits : \A m \in hits : k <= m].category
            /\ (arg.payee = "PCS SVC WEB ID: 0000"
                  /\ OnlyRule(lookup_data, [payee |-> "webid", type |-> "literal"]))
                 => ret = None
            /\ (arg.payee = "PCS SVC WEB ID: 0000"
                  /\ OnlyRule(lookup_data, [payee |-> "web id", type |-> "literal"]))
                 => ret = lookup_data[1].category
            /\ (arg.payee = "EDI PYMNTS"
                  /\ OnlyRule(lookup_data, [payee |-> "EDI", type |-> "glob"]))
                 => ret = None

\* C3, witness. A payee whose first category holds only rules that miss it (a literal
\* without the space, a rule of unknown kind) and whose second category
\* holds a literal that matches after lowercasing: the second is returned.
C3_Witness ==
    /\ pc = "returned"
    /\ arg.payee = "PCS SVC WEB ID: 0000"
    /\ Len(lookup_data) = 2
    /\ lookup_data[1].patterns = <<[payee |-> "webid", type |-> "literal"],
                                   [payee |-> "EDI", type |-> "glob"]>>
    /\ lookup_data[2].patterns = <<[payee |-> "web id", type |-> "literal"]>>
    /\ ret = lookup_data[2].category

-----------------------------------------------------------------------------
(* Lookup store: category_manager.py *)

\* The position of `category` among the store's keys, 0 when it is no key.
key_index(data, category) ==
    IF \E k \in 1..Len(data) : data[k].category = category
    THEN CHOOSE k \in 1..Len(data) : data[k].category = category
    ELSE 0

\* update_lookup, lines 32-33: a category that is no key gets an empty list.
with_category(data, category) ==
    IF key_index(data, category) = 0
    THEN Append(data, [category |-> category, patterns |-> <<>>])
    ELSE data

\* update_lookup, line 35: any(entry['payee'] == pattern ...).
rule_exists(data, category, pattern) ==
    LET rules == data[key_index(data, category)].patterns
    IN  \E j \in 1..Len(rules) : rules[j].payee = pattern

exists_SameKind(data, category, pattern, match_type) ==
    LET rules == with_category(data, category)[
                     key_index(with_category(data, category), category)].patterns
    IN  \E j \in 1..Len(rules) :
            rules[j].payee = pattern /\ rules[j].type = match_type

\* Whether update_lookup finds the rule already there (line 35); the kind of
\* the rule has no part in it.
exists(data, category, pattern, match_type) ==
    rule_exists(with_category(data, category), category, pattern)

\* lookup_data after update_lookup(category, pattern, match_type).
update_lookup(data, category, pattern, match_type) ==
    LET d == with_category(data, category)
        k == key_index(d, category)
    IN  IF exists(data, category, pattern, match_type)
        THEN d
        ELSE [d EXCEPT ![k].patterns =
                  Append(@, [payee |-> pattern, type |-> match_type])]

\* save_lookup_data: json.dump writes the whole dict, keys and lists in order.
save_lookup_data(data) == [exists |-> TRUE, data |-> data]

file_after_update_NoSave(file, data, category, pattern, match_type) == file

\* The lookup file after update_lookup: rewritten only when a rule was added.
file_after_update(file, data, category, pattern, match_type) ==
    IF exists(data, category, pattern, match_type)
    THEN file
    ELSE save_lookup_data(update_lookup(data, category, pattern, match_type))

-----------------------------------------------------------------------------
(* SpecStore: every sequence of update_lookup calls *)

StoreCategories == {"Expenses:Fuel", "Income:Salary"}

\* The categories update_lookup is called with: the store's and one it lacks.
CallCategories == StoreCategories \cup {"Expenses:Misc"}

StorePatterns == {"acme", "web"}

StoreKinds == {"literal", "regex"}

StoreRules == [payee : StorePatterns, type : StoreKinds]

NoDuplicatePattern(data) ==
    \A k \in 1..Len(data) :
        \A a, b \in 1..Len(data[k].patterns) :
            a # b => data[k].patterns[a].payee # data[k].patterns[b].payee

InitStore ==
    /\ pc = "constructed"
    /\ lookup_data \in {s \in Stores(StoreCategories, StoreRules, MaxRules) :
                           NoDuplicatePattern(s)}
    /\ lookup_file = save_lookup_data(lookup_data)
    /\ categories_list = <<>>
    /\ account_info = <<>> /\ transactions = <<>> /\ transaction_type = None
    /\ arg = [category |-> None, pattern |-> None, match_type |-> None]
    /\ local = <<>> /\ ret = None
    /\ log = [data |-> lookup_data, file |-> lookup_file]

\* One call of update_lookup; log keeps the store and the file as they were.
UpdateLookup ==
    /\ pc \in {"constructed", "update_lookup returned"}
    /\ \E c \in CallCategories, p \in StorePatterns, t \in StoreKinds :
          /\ arg' = [category |-> c, pattern |-> p, match_type |-> t]
          /\ lookup_data' = update_lookup(lookup_data, c, p, t)
          /\ lookup_file' = file_after_update(lookup_file, lookup_data, c, p, t)
    /\ log' = [data |-> lookup_data, file |-> lookup_file]
    /\ pc' = "update_lookup returned"
    /\ UNCHANGED <<categories_list, qifVars, local, ret>>

NextStore == UpdateLookup

SpecStore == InitStore /\ [][NextStore]_vars

RulesOf(data, category) ==
    IF key_index(data, category) = 0 THEN <<>>
    ELSE data[key_index(data, category)].patterns

HasPattern(data, category, pattern) ==
    \E j \in 1..Len(RulesOf(data, category)) :
        RulesOf(data, category)[j].payee = pattern

\* C6: from a store without duplicates, after any sequence of update_lookup
\* calls no category holds two rules with the same pattern; a call whose
\* pattern the category already holds, whatever its kind, leaves the store
\* and the file as they were; and the same call made again leaves the rule
\* list as long as the first call left it.
C6_NoDuplicateRules ==
    /\ NoDuplicatePattern(lookup_data)
    /\ pc = "update_lookup returned" =>
         /\ HasPattern(log.data, arg.category, arg.pattern) =>
              lookup_data = log.data /\ lookup_file = log.file
         /\ \A t \in StoreKinds :
              /\ update_lookup(lookup_data, arg.category, arg.pattern, t)
                   = lookup_data
              /\ Len(RulesOf(update_lookup(lookup_data, arg.category,
                                           arg.pattern, t), arg.category))
                   = Len(RulesOf(lookup_data, arg.category))

\* C6, witness. A call with a pattern the category holds under the other kind: nothing
\* was added.
C6_Witness ==
    /\ pc = "update_lookup returned"
    /\ arg.match_type = "regex"
    /\ \E j \in 1..Len(RulesOf(log.data, arg.category)) :
          RulesOf(log.data, arg.category)[j] =
              [payee |-> arg.pattern, type |-> "literal"]
    /\ Len(RulesOf(lookup_data, arg.category)) = 2
    /\ lookup_data = log.data

-----------------------------------------------------------------------------
(* QIF record model and codec: qif_parser.py *)

AcctHeader == "!Account"
AcctName == "N"
AcctType == "T"
TxnHeader == "!Type"
RecordBegin == "C"
TxnDate == "D"
TxnCheckNumber == "N"
TxnPayee == "P"
TxnAmount == "T"
TxnCategory == "L"
RecordEnd == "^"

\* OrderedDict: `key in d`.
has_key(d, key) == \E k \in 1..Len(d) : d[k][1] = key

\* OrderedDict: d[key] for a key of d.
item(d, key) == d[CHOOSE k \in 1..Len(d) : d[k][1] = key][2]

\* OrderedDict: d.get(key), None for a key d lacks.
get(d, key) == IF has_key(d, key) THEN item(d, key) ELSE None

\* OrderedDict: d[key] = value. A key of d keeps its place, a new one goes last.
set_item(d, key, value) ==
    IF has_key(d, key)
    THEN [k \in 1..Len(d) |-> IF d[k][1] = key THEN <<key, value>> ELSE d[k]]
    ELSE Append(d, <<key, value>>)

keys(d) == [k \in 1..Len(d) |-> d[k][1]]

field_order ==
    <<RecordBegin, TxnDate, TxnCheckNumber, TxnPayee, TxnAmount, TxnCategory,
      RecordEnd>>

\* sort_transaction from the k-th entry of field_order on.
RECURSIVE sort_from(_, _, _)
sort_from(txn, order, k) ==
    IF k > Len(order) THEN <<>>
    ELSE IF has_key(txn, order[k])
         THEN <<<<order[k], item(txn, order[k])>>>> \o sort_from(txn, order, k + 1)
         ELSE sort_from(txn, order, k + 1)

sort_transaction_InsertionOrder(txn) ==
    SelectSeq(txn, LAMBDA kv : \E k \in 1..Len(field_order) : field_order[k] = kv[1])

sort_transaction(txn) == sort_from(txn, field_order, 1)

payee(transaction) == get(transaction, TxnPayee)

categorize(transaction, category) == set_item(transaction, TxnCategory, category)

\* The lines one OrderedDict is written as: f'{key}{value}'.
dict_lines(d) == [k \in 1..Len(d) |-> d[k][1] \o d[k][2]]

RECURSIVE transactions_lines(_)
transactions_lines(txns) ==
    IF Len(txns) = 0 THEN <<>>
    ELSE dict_lines(sort_transaction(Head(txns))) \o transactions_lines(Tail(txns))

\* write: the lines of the output file. transaction_type None is written as
\* Python formats it.
write(info, type, txns) ==
    dict_lines(info)
      \o <<TxnHeader \o ":" \o (IF type = None THEN "None" ELSE type)>>
      \o transactions_lines(txns)

-----------------------------------------------------------------------------
(* SpecSort: sort_transaction on records built in every insertion order *)

\* The tags a record is built from: the seven of field_order and the memo
\* tag M, which field_order does not hold.
SortTags == {"C", "D", "N", "P", "T", "L", "^", "M"}

SortValues(tag) ==
    IF tag \in {"C", "^"} THEN {""}
    ELSE IF tag = "L" THEN {"", "Income:Salary"}
    ELSE IF tag = "D" THEN {"12/31/21"}
    ELSE IF tag = "N" THEN {"N/A"}
    ELSE IF tag = "P" THEN {"Test Payee"}
    ELSE IF tag = "T" THEN {"-100.00"}
    ELSE {"memo"}

InitSort ==
    /\ pc = "building"
    /\ local = [txn |-> <<>>]
    /\ ret = <<>>
    /\ lookup_file = [exists |-> FALSE, data |-> <<>>]
    /\ lookup_data = <<>> /\ categories_list = <<>>
    /\ account_info = <<>> /\ transactions = <<>> /\ transaction_type = None
    /\ arg = <<>> /\ log = <<>>

\* txn[tag] = value on the record being built.
SetField ==
    /\ pc = "building"
    /\ \E tag \in SortTags :
          \E value \in SortValues(tag) :
              local' = [txn |-> set_item(local.txn, tag, value)]
    /\ UNCHANGED <<mgrVars, qifVars, pc, arg, ret, log>>

SortTransaction ==
    /\ pc = "building"
    /\ ret' = sort_transaction(local.txn)
    /\ pc' = "sorted"
    /\ UNCHANGED <<mgrVars, qifVars, arg, local, log>>

NextSort == SetField \/ SortTransaction

SpecSort == InitSort /\ [][NextSort]_vars

CanonicalOrder == <<"C", "D", "N", "P", "T", "L", "^">>

CanonicalPlace(tag) == CHOOSE k \in 1..7 : CanonicalOrder[k] = tag

IsCanonical(tag) == \E k \in 1..7 : CanonicalOrder[k] = tag

\* C5: sort_transaction emits the fields of a record in the order
\* [C, D, N, P, T, L, ^] whatever order they were set in, each present field
\* with its value, and no tag the record lacks; write emits one line
\* tag + value for each of them.
C5_CanonicalOrder ==
    pc = "sorted" =>
        /\ \A a, b \in 1..Len(ret) :
              a < b => /\ IsCanonical(ret[a][1]) /\ IsCanonical(ret[b][1])
                       /\ CanonicalPlace(ret[a][1]) < CanonicalPlace(ret[b][1])
        /\ \A k \in 1..Len(ret) :
              /\ IsCanonical(ret[k][1])
              /\ \E j \in 1..Len(local.txn) : local.txn[j] = ret[k]
        /\ \A j \in 1..Len(local.txn) :
              IsCanonical(local.txn[j][1]) =>
                  \E k \in 1..Len(ret) : ret[k] = local.txn[j]
        /\ Len(transactions_lines(<<local.txn>>)) = Len(ret)
        /\ \A k \in 1..Len(ret) :
              transactions_lines(<<local.txn>>)[k] = ret[k][1] \o ret[k][2]

\* C5, witness. The record of the specification's example, set in the order
\* [category, amount, payee, date], comes out as [date, payee, amount,
\* category].
C5_Witness ==
    /\ pc = "sorted"
    /\ keys(local.txn) = <<"L", "T", "P", "D">>
    /\ ret = <<<<"D", "12/31/21">>, <<"P", "Test Payee">>,
               <<"T", "-100.00">>, <<"L", "Income:Salary">>>>

\* The state init_from_qif starts a file in: the parser's fields as they are,
\* an empty current_transaction, and in_account_section not yet bound.
parse_start(info, txns, type) ==
    [account_info |-> info, transactions |-> txns, transaction_type |-> type,
     current_transaction |-> <<>>, in_account_section |-> "unbound",
     raised |-> None]

\* line.split(':')[1]
second_token(line) == split(line, ":")[2]

\* The body of init_from_qif's for loop on one line of the file. A read of
\* in_account_section before any !Account line bound it raises
\* UnboundLocalError, a !Type line without ':' raises IndexError; what was
\* stored before stays stored.
parse_line(st, raw) ==
    LET line == strip(raw)
        line_type == Char(line, 1)
        line_data == strip(SubSeq(line, 2, Len(line)))
    IN  IF st.raised # None \/ line = "" THEN st
        ELSE IF line = AcctHeader
        THEN [st EXCEPT !.in_account_section = "True",
                        !.account_info = <<<<line, "">>>>]
        ELSE IF startswith(line, TxnHeader)
        THEN IF Len(split(line, ":")) < 2
             THEN [st EXCEPT !.raised = "IndexError"]
             ELSE [st EXCEPT !.transaction_type = second_token(line)]
        ELSE IF st.in_account_section = "unbound"
        THEN [st EXCEPT !.raised = "UnboundLocalError"]
        ELSE IF line = RecordEnd
        THEN IF st.in_account_section = "True"
             THEN [st EXCEPT !.account_info = set_item(@, RecordEnd, ""),
                             !.in_account_section = "False"]
             ELSE [st EXCEPT !.transactions =
                                 Append(@, set_item(st.current_transaction,
                                                    RecordEnd, "")),
                             !.current_transaction = <<>>]
        ELSE IF st.in_account_section = "True"
        THEN [st EXCEPT !.account_info = set_item(@, line_type, line_data)]
        ELSE [st EXCEPT !.current_transaction = set_item(@, line_type, line_data)]

\* init_from_qif's for loop over the lines of the file.
RECURSIVE parse_lines(_, _)
parse_lines(st, lines) ==
    IF Len(lines) = 0 THEN st
    ELSE parse_lines(parse_line(st, Head(lines)), Tail(lines))

-----------------------------------------------------------------------------
(* SpecQif: init_from_qif on a drawn file, then write *)

\* The most lines the transaction section of a drawn file holds.
MaxBody == 4

\* What a drawn file starts with: nothing, a blank line, or a line that comes
\* before any !Account line.
FilePrefixes == {<<>>, <<"  ">>, <<"NAssets:Checking">>, <<"^">>}

\* The header section of a drawn file; a file may come without one.
FileHeaders ==
    {<<"!Account", "NAssets:Checking", "TBank", "^">>,
     <<"!Account", "TBank", " NAssets:Checking", "^">>,
     <<>>}

FileTypeLines == {<<"!Type:Bank">>, <<"!Type:Oth:A">>, <<>>}

BodyLines == {"NN/A", "PAcme  Inc", "T-1.00", "T -1.00 ", "^", "!Account"}

Files ==
    {p \o h \o t \o b :
        p \in FilePrefixes, h \in FileHeaders, t \in FileTypeLines,
        b \in SeqsUpTo(BodyLines, MaxBody)}

InitQif ==
    /\ pc = "init_from_qif"
    /\ arg \in [file : Files]
    /\ account_info = <<>> /\ transactions = <<>> /\ transaction_type = None
    /\ local = [current_transaction |-> <<>>, in_account_section |-> "unbound"]
    /\ ret = <<>>
    /\ lookup_file = [exists |-> FALSE, data |-> <<>>]
    /\ lookup_data = <<>> /\ categories_list = <<>>
    /\ log = <<>>

\* init_from_qif(qif_file): returns after the last line, or raises.
InitFromQif ==
    /\ pc = "init_from_qif"
    /\ LET st == parse_lines(parse_start(account_info, transactions,
                                         transaction_type), arg.file)
       IN  /\ account_info' = st.account_info
           /\ transactions' = st.transactions
           /\ transaction_type' = st.transaction_type
           /\ local' = [current_transaction |-> st.current_transaction,
                        in_account_section |-> st.in_account_section]
           /\ pc' = IF st.raised = None THEN "parsed" ELSE st.raised
    /\ UNCHANGED <<mgrVars, arg, ret, log>>

\* write(output_file) on the parsed document.
WriteQif ==
    /\ pc = "parsed"
    /\ ret' = write(account_info, transaction_type, transactions)
    /\ pc' = "written"
    /\ UNCHANGED <<mgrVars, qifVars, arg, local, log>>

NextQif == InitFromQif \/ WriteQif

SpecQif == InitQif /\ [][NextQif]_vars

Trimmed(s) == Len(s) = 0 \/ (Char(s, 1) \notin Whitespace /\ Char(s, Len(s)) \notin Whitespace)

TagOf(line) == Char(line, 1)

ValueOf(line) == SubSeq(line, 2, Len(line))

TxnTagPlace(tag) ==
    CHOOSE k \in 1..6 : <<"C", "D", "N", "P", "T", "L">>[k] = tag

IsTxnFieldLine(line) ==
    /\ Len(line) >= 1
    /\ TagOf(line) \in {"C", "D", "N", "P", "T", "L"}
    /\ Trimmed(ValueOf(line))

\* A QIF document in canonical form: the !Account header with its N, T and ^
\* lines, one !Type:<label> line, then transactions whose fields come in
\* canonical order and end with ^; no value has whitespace at either end.
IsCanonicalDocument(file) ==
    /\ Len(file) >= 5
    /\ file[1] = "!Account"
    /\ Len(file[2]) >= 1 /\ TagOf(file[2]) = "N" /\ Trimmed(ValueOf(file[2]))
    /\ Len(file[3]) >= 1 /\ TagOf(file[3]) = "T" /\ Trimmed(ValueOf(file[3]))
    /\ file[4] = "^"
    /\ Len(file[5]) >= 6 /\ SubSeq(file[5], 1, 6) = "!Type:"
    /\ Trimmed(SubSeq(file[5], 7, Len(file[5])))
    /\ \A k \in 6..Len(file) : file[k] = "^" \/ IsTxnFieldLine(file[k])
    /\ \A k \in 6..(Len(file) - 1) :
          (file[k] # "^" /\ file[k + 1] # "^") =>
              TxnTagPlace(TagOf(file[k])) < TxnTagPlace(TagOf(file[k + 1]))
    /\ Len(file) > 5 => file[Len(file)] = "^"

LabelOf(file) == SubSeq(file[5], 7, Len(file[5]))

\* C4: for every QIF document in canonical form, init_from_qif followed by
\* write produces exactly the original sequence of lines.
C4_RoundTrip ==
    (pc = "written" /\ IsCanonicalDocument(arg.file)) => ret = arg.file

\* C4, where the code meets it: the round trip of the canonical documents
\* whose !Type label holds no ':'.
C4_RoundTripColonFreeLabel ==
    (pc = "written" /\ IsCanonicalDocument(arg.file)
       /\ ~contains(":", LabelOf(arg.file))) => ret = arg.file

\* C4, witness. A canonical document with two transactions, the first of two fields,
\* written back as it was read.
C4_RoundTripWitness ==
    /\ pc = "written"
    /\ IsCanonicalDocument(arg.file)
    /\ Len(transactions) = 2
    /\ Len(transactions[1]) = 3
    /\ ret = arg.file

-----------------------------------------------------------------------------
(* CSV adapter: QIFParser.init_from_csv *)

\* t[index] on a CSV row, Python's indices counting from 0.
column(t, index) == t[index + 1]

\* account_info after lines 63-66.
csv_account_info(info, acct_cfg) ==
    set_item(set_item(set_item(set_item(info,
        AcctHeader, ""),
        AcctName, acct_cfg.full_account_name),
        AcctType, acct_cfg.account_type),
        RecordEnd, "")

csv_transaction_SwappedColumns(t, acct_cfg) ==
    <<<<RecordBegin, "">>,
      <<TxnDate, column(t, acct_cfg.colspec.date)>>,
      <<TxnCheckNumber, "N/A">>,
      <<TxnPayee, column(t, acct_cfg.colspec.amount)>>,
      <<TxnAmount, column(t, acct_cfg.colspec.name)>>,
      <<TxnCategory, "">>,
      <<RecordEnd, "">>>>

\* The record lines 70-77 build for the row t.
csv_transaction(t, acct_cfg) ==
    set_item(set_item(set_item(set_item(set_item(set_item(set_item(<<>>,
        RecordBegin, ""),
        TxnDate, column(t, acct_cfg.colspec.date)),
        TxnCheckNumber, "N/A"),
        TxnPayee, column(t, acct_cfg.colspec.name)),
        TxnAmount, column(t, acct_cfg.colspec.amount)),
        TxnCategory, ""),
        RecordEnd, "")

\* transactions after the for loop of lines 69-78.
RECURSIVE csv_transactions(_, _, _)
csv_transactions(txns, csv_input, acct_cfg) ==
    IF Len(csv_input) = 0 THEN txns
    ELSE csv_transactions(Append(txns, csv_transaction(Head(csv_input), acct_cfg)),
                          Tail(csv_input), acct_cfg)

-----------------------------------------------------------------------------
(* SpecCsv: init_from_csv on drawn rows and column mappings *)

\* The most rows a drawn CSV input holds.
MaxCsvRows == 2

CsvRows ==
    {<<"01/01/2023", "Sample Payee 1", "100.00">>,
     <<"02/01/2023", "Sample Payee 2", "-50.00">>,
     <<"02/01/2023", "", "0.00">>}

AccountConfigs ==
    [full_account_name : {"Assets:Checking Accounts:checking-personal"},
     account_type : {"Bank", "CCard"},
     colspec : [date : 0..2, name : 0..2, amount : 0..2]]

InitCsv ==
    /\ pc = "init_from_csv"
    /\ arg \in [csv_input : SeqsUpTo(CsvRows, MaxCsvRows), acct_cfg : AccountConfigs]
    /\ account_info = <<>> /\ transactions = <<>> /\ transaction_type = None
    /\ lookup_file = [exists |-> FALSE, data |-> <<>>]
    /\ lookup_data = <<>> /\ categories_list = <<>>
    /\ local = <<>> /\ ret = <<>> /\ log = <<>>

\* init_from_csv(csv_input, acct_cfg).
InitFromCsv ==
    /\ pc = "init_from_csv"
    /\ account_info' = csv_account_info(account_info, arg.acct_cfg)
    /\ transaction_type' = arg.acct_cfg.account_type
    /\ transactions' = csv_transactions(transactions, arg.csv_input, arg.acct_cfg)
    /\ pc' = "converted"
    /\ UNCHANGED <<mgrVars, arg, local, ret, log>>

\* write(output_file) on the converted document, as test_write does.
WriteCsv ==
    /\ pc = "converted"
    /\ ret' = write(account_info, transaction_type, transactions)
    /\ pc' = "written"
    /\ UNCHANGED <<mgrVars, qifVars, arg, local, log>>

NextCsv == InitFromCsv \/ WriteCsv

SpecCsv == InitCsv /\ [][NextCsv]_vars

CsvConverted == pc \in {"converted", "written"}

\* What C10 says of the header, the label, the number of transactions and
\* their D, P, T and N fields.
CsvFieldsFromRows ==
    /\ get(account_info, "N") = arg.acct_cfg.full_account_name
    /\ get(account_info, "T") = arg.acct_cfg.account_type
    /\ transaction_type = arg.acct_cfg.account_type
    /\ Len(transactions) = Len(arg.csv_input)
    /\ \A k \in 1..Len(transactions) :
          /\ get(transactions[k], "D") =
                 arg.csv_input[k][arg.acct_cfg.colspec.date + 1]
          /\ get(transactions[k], "P") =
                 arg.csv_input[k][arg.acct_cfg.colspec.name + 1]
          /\ get(transactions[k], "T") =
                 arg.csv_input[k][arg.acct_cfg.colspec.amount + 1]
          /\ get(transactions[k], "N") = "N/A"

-----------------------------------------------------------------------------
(* Operator prompts and the categorization loop: process_transactions.py *)

UNCATEGORIZED_ACCOUNT == "Unspecified"

\* The category names of the model, in the order list.sort() puts them.
CategoryOrder == <<"Expenses:Food", "Income:Salary", "Unspecified">>

\* list.sort() on a list of distinct category names.
sort(list) ==
    SelectSeq(CategoryOrder, LAMBDA c : \E k \in 1..Len(list) : list[k] = c)

in_list(list, x) == \E k \in 1..Len(list) : list[k] = x

\* collect_category, line 92: the stripped response, or the sentinel for an
\* empty one.
prompted_category(response) ==
    IF strip(response) = "" THEN UNCATEGORIZED_ACCOUNT ELSE strip(response)

\* collect_pattern, lines 102-114, on one input: (None, None) for an empty
\* input, the (pattern, kind) pair for an input that matches the payee, and
\* otherwise another prompt.
pattern_reply_Unchecked(input, payee_) ==
    LET pattern_input == strip(input)
    IN  IF pattern_input = ""
        THEN [returns |-> TRUE, pattern |-> None, match_type |-> None]
        ELSE IF startswith(pattern_input, "/") /\ endswith(pattern_input, "/")
        THEN [returns |-> TRUE,
              pattern |-> SubSeq(pattern_input, 2, Len(pattern_input) - 1),
              match_type |-> "regex"]
        ELSE [returns |-> TRUE, pattern |-> pattern_input,
              match_type |-> "literal"]

pattern_reply(input, payee_) ==
    LET pattern_input == strip(input)
        pattern == SubSeq(pattern_input, 2, Len(pattern_input) - 1)
    IN  IF pattern_input = ""
        THEN [returns |-> TRUE, pattern |-> None, match_type |-> None]
        ELSE IF startswith(pattern_input, "/") /\ endswith(pattern_input, "/")
        THEN IF re_search(pattern, payee_)
             THEN [returns |-> TRUE, pattern |-> pattern, match_type |-> "regex"]
             ELSE [returns |-> FALSE, pattern |-> None, match_type |-> None]
        ELSE IF contains(lower(pattern_input), lower(payee_))
             THEN [returns |-> TRUE, pattern |-> pattern_input,
                   match_type |-> "literal"]
             ELSE [returns |-> FALSE, pattern |-> None, match_type |-> None]

sentinel_chosen_Never(category) == FALSE

\* handle_uncategorized, line 80: the operator chose the sentinel.
sentinel_chosen(category) == category = UNCATEGORIZED_ACCOUNT

next_index_SkipOne(idx) == idx + 2

\* The for statement of process_transactions: the next transaction.
next_index(idx) == idx + 1

-----------------------------------------------------------------------------
(* Spec: main() from the CategoryManager's construction to the written file *)

\* The most rows the CSV input of a run holds.
MaxTxns == 3

MainCategoryLists ==
    {<<"Unspecified", "Expenses:Food">>, <<"Income:Salary", "Expenses:Food">>}

\* What the lookup file holds when it exists.
MainStores ==
    {<<>>,
     <<[category |-> "Expenses:Food", patterns |-> <<>>],
       [category |-> "Income:Salary", patterns |-> <<>>]>>,
     <<[category |-> "Expenses:Food",
        patterns |-> <<[payee |-> "acme", type |-> "regex"]>>],
       [category |-> "Income:Salary",
        patterns |-> <<[payee |-> "shell", type |-> "literal"]>>]>>,
     <<[category |-> "Income:Salary",
        patterns |-> <<[payee |-> ".", type |-> "regex"]>>]>>}

\* The rows of the CSV input, all of one day: read_transactions_from_csv hands
\* them over sorted by date, which every order of them is.
MainRows ==
    {<<"01/02/2023", "ACME Corp", "100.00">>,
     <<"01/02/2023", "Shell", "-50.00">>,
     <<"01/02/2023", " ", "0.00">>}

MainConfig ==
    [full_account_name |-> "Assets:Checking Accounts:checking-personal",
     account_type |-> "Bank",
     colspec |-> [date |-> 0, name |-> 1, amount |-> 2]]

\* What the operator may type at the category prompt and the pattern prompt.
CategoryResponses ==
    {"", "  ", "Expenses:Food", " Income:Salary ", "Bogus", "Unspecified"}

PatternInputs == {"", "acme", "/./", "//", "zzz", " Shell "}

NoPrompt == [asked |-> FALSE, response |-> "", returned |-> FALSE, value |-> None]

Init ==
    /\ pc = "main"
    /\ lookup_file \in
          {[exists |-> FALSE, data |-> <<>>]}
            \cup {[exists |-> TRUE, data |-> s] : s \in MainStores}
    /\ arg \in [category_list : MainCategoryLists,
                csv_input : SeqsUpTo(MainRows, MaxTxns),
                acct_cfg : {MainConfig}]
    /\ lookup_data = <<>> /\ categories_list = <<>>
    /\ account_info = <<>> /\ transactions = <<>> /\ transaction_type = None
    /\ local = [idx |-> 1, category |-> None]
    /\ ret = <<>>
    /\ log = [file_existed |-> lookup_file.exists, visited |-> <<>>,
              calls |-> <<>>, seen |-> <<>>, assigned |-> <<>>,
              prompt |-> NoPrompt, added |-> {}]

\* CategoryManager(lookup_file, category_list), lines 12-29. __init__ calls
\* load_lookup_data before it binds categories_list: without a lookup file
\* create_new_lookup_file reads self.categories_list, which is not bound yet,
\* and the AttributeError leaves __init__ and main; no file is written.
Construct ==
    /\ pc = "main"
    /\ \/ /\ ~lookup_file.exists
          /\ pc' = "AttributeError"
          /\ UNCHANGED <<lookup_data, categories_list>>
       \/ /\ lookup_file.exists
          /\ lookup_data' = lookup_file.data
          /\ categories_list' = arg.category_list
          /\ pc' = "init_from_csv"
    /\ UNCHANGED <<lookup_file, qifVars, arg, local, ret, log>>

\* qif_parser.init_from_csv(transactions, acct_cfg=account_config) in main.
InitFromCsvMain ==
    /\ pc = "init_from_csv"
    /\ account_info' = csv_account_info(account_info, arg.acct_cfg)
    /\ transaction_type' = arg.acct_cfg.account_type
    /\ transactions' = csv_transactions(transactions, arg.csv_input, arg.acct_cfg)
    /\ log' = [log EXCEPT !.calls = [k \in 1..Len(arg.csv_input) |-> 0]]
    /\ pc' = "process_transactions"
    /\ UNCHANGED <<mgrVars, arg, local, ret>>

\* The end of one iteration of process_transactions, lines 123-124, with the
\* category the matcher or handle_uncategorized gave.
FinishTransaction(category, by) ==
    /\ transactions' =
          IF truthy(category)
          THEN [transactions EXCEPT ![local.idx] = categorize(@, category)]
          ELSE transactions
    /\ local' = [idx |-> next_index(local.idx), category |-> None]
    /\ pc' = "process_transactions"
    /\ UNCHANGED <<account_info, transaction_type, arg, ret>>

Visit(result) ==
    [log EXCEPT !.visited = Append(@, local.idx),
                !.seen = Append(@, [idx |-> local.idx, store |-> lookup_data,
                                    result |-> result])]

\* One iteration whose payee the matcher classifies, lines 119-124.
AutoCategorize ==
    /\ pc = "process_transactions"
    /\ local.idx <= Len(transactions)
    /\ LET category == categorize_transaction(payee(transactions[local.idx]),
                                              lookup_data)
       IN  /\ truthy(category)
           /\ FinishTransaction(category, "matcher")
           /\ log' = [Visit(category) EXCEPT
                        !.assigned = Append(@, [by |-> "matcher",
                                                value |-> category])]
    /\ UNCHANGED mgrVars

\* One iteration whose payee the matcher does not classify: the call of
\* handle_uncategorized up to the first prompt of collect_category.
\* category_prompt() builds a CategoryCompleter, which sorts categories_list
\* in place.
HandleUncategorized ==
    /\ pc = "process_transactions"
    /\ local.idx <= Len(transactions)
    /\ LET category == categorize_transaction(payee(transactions[local.idx]),
                                              lookup_data)
       IN  /\ ~truthy(category)
           /\ log' = [Visit(category) EXCEPT
                        !.calls[local.idx] = @ + 1, !.prompt = NoPrompt]
    /\ categories_list' = sort(categories_list)
    /\ pc' = "collect_category"
    /\ UNCHANGED <<lookup_file, lookup_data, qifVars, arg, local, ret>>

\* One prompt of collect_category, lines 92-96, and what follows its return
\* in handle_uncategorized, lines 80-81.
CollectCategory ==
    /\ pc = "collect_category"
    /\ \E response \in CategoryResponses :
          LET category == prompted_category(response)
          IN  IF in_list(categories_list, category)
              THEN /\ IF sentinel_chosen(category)
                      THEN /\ FinishTransaction(category, "operator")
                           /\ log' = [log EXCEPT
                                 !.prompt = [asked |-> TRUE, response |-> response,
                                             returned |-> TRUE, value |-> category],
                                 !.assigned = Append(@, [by |-> "operator",
                                                         value |-> category])]
                      ELSE /\ local' = [local EXCEPT !.category = category]
                           /\ pc' = "collect_pattern"
                           /\ log' = [log EXCEPT
                                 !.prompt = [asked |-> TRUE, response |-> response,
                                             returned |-> TRUE, value |-> category]]
                           /\ UNCHANGED <<qifVars, arg, ret>>
              ELSE /\ log' = [log EXCEPT
                         !.prompt = [asked |-> TRUE, response |-> response,
                                     returned |-> FALSE, value |-> None]]
                   /\ UNCHANGED <<qifVars, pc, arg, local, ret>>
    /\ UNCHANGED mgrVars

\* One prompt of collect_pattern, lines 102-114, and what follows its return
\* in handle_uncategorized, lines 84-86: update_lookup for a pattern that is
\* not empty.
CollectPattern ==
    /\ pc = "collect_pattern"
    /\ \E input \in PatternInputs :
          LET reply == pattern_reply(input, payee(transactions[local.idx]))
          IN  /\ reply.returns
              /\ IF truthy(reply.pattern)
                 THEN /\ lookup_data' = update_lookup(lookup_data, local.category,
                                            reply.pattern, reply.match_type)
                      /\ lookup_file' = file_after_update(lookup_file, lookup_data,
                                            local.category, reply.pattern,
                                            reply.match_type)
                      /\ log' = [log EXCEPT
                            !.assigned = Append(@, [by |-> "operator",
                                                    value |-> local.category]),
                            !.added = IF lookup_data' = lookup_data THEN @
                                      ELSE @ \cup {[category |-> local.category,
                                                    payee |-> reply.pattern,
                                                    type |-> reply.match_type]}]
                 ELSE /\ UNCHANGED <<lookup_data, lookup_file>>
                      /\ log' = [log EXCEPT
                            !.assigned = Append(@, [by |-> "operator",
                                                    value |-> local.category])]
              /\ FinishTransaction(local.category, "operator")
    /\ UNCHANGED categories_list

\* A pattern that does not match the payee: the warning of line 114 and the
\* next prompt.
RejectPattern ==
    /\ pc = "collect_pattern"
    /\ \E input \in PatternInputs :
          ~pattern_reply(input, payee(transactions[local.idx])).returns
    /\ UNCHANGED vars

\* The process is terminated from outside while the loop runs, between two
\* transactions or at a prompt; the lookup file stays as it was written.
Terminate ==
    /\ pc \in {"process_transactions", "collect_category", "collect_pattern"}
    /\ local.idx <= Len(transactions)
    /\ pc' = "terminated"
    /\ UNCHANGED <<mgrVars, qifVars, arg, local, ret, log>>

\* process_transactions returns after the last transaction.
ReturnFromLoop ==
    /\ pc = "process_transactions"
    /\ local.idx > Len(transactions)
    /\ pc' = "write"
    /\ UNCHANGED <<mgrVars, qifVars, arg, local, ret, log>>

\* qif_parser.write(qif_output_file) in main.
WriteMain ==
    /\ pc = "write"
    /\ ret' = write(account_info, transaction_type, transactions)
    /\ pc' = "done"
    /\ UNCHANGED <<mgrVars, qifVars, arg, local, log>>

Next ==
    \/ Construct
    \/ InitFromCsvMain
    \/ AutoCategorize
    \/ HandleUncategorized
    \/ CollectCategory
    \/ CollectPattern
    \/ RejectPattern
    \/ Terminate
    \/ ReturnFromLoop
    \/ WriteMain

Spec == Init /\ [][Next]_vars

LoopFinished == pc \in {"write", "done"}

BetweenTransactions ==
    pc \in {"process_transactions", "terminated", "write", "done"}

CategoryField(k) == get(transactions[k], "L")

\* C1: process_transactions visits the transactions in document order and
\* skips none, and when it finishes every transaction holds a non-empty
\* category field L: the category the matcher returned, or the category or
\* the sentinel 'Unspecified' the operator path returned.
C1_AllCategorizedInOrder ==
    /\ \A j \in 1..Len(log.visited) : log.visited[j] = j
    /\ LoopFinished =>
         /\ Len(log.visited) = Len(arg.csv_input)
         /\ Len(transactions) = Len(arg.csv_input)
         /\ \A k \in 1..Len(transactions) :
               /\ has_key(transactions[k], "L")
               /\ CategoryField(k) # "" /\ CategoryField(k) # None
               /\ CategoryField(k) = log.assigned[k].value
               /\ log.assigned[k].by = "matcher" =>
                     /\ log.seen[k].result = CategoryField(k)
                     /\ \E c \in 1..Len(log.seen[k].store) :
                           log.seen[k].store[c].category = CategoryField(k)
               /\ log.assigned[k].by = "operator" =>
                     /\ log.seen[k].result = None
                     /\ in_list(arg.category_list, CategoryField(k))

\* C1, witness. A finished run of two transactions, the first classified by the operator
\* as 'Unspecified', the second by the matcher.
C1_Witness ==
    /\ pc = "done"
    /\ Len(transactions) = 2
    /\ log.assigned[1] = [by |-> "operator", value |-> "Unspecified"]
    /\ log.assigned[2].by = "matcher"
    /\ CategoryField(1) = "Unspecified"
    /\ CategoryField(2) = "Income:Salary"

RowPayee(k) == arg.csv_input[k][2]

SomeRuleMatches(store, p) ==
    \E c \in 1..Len(store) :
        \E j \in 1..Len(store[c].patterns) : RuleHolds(store[c].patterns[j], p)

\* C2 (as stated): handle_uncategorized is invoked for a transaction exactly
\* when categorize_transaction returns no category against the store of that
\* moment: never for a transaction whose payee matches some stored rule,
\* once for a transaction whose payee matches none.
C2_InvokedIffNoRuleMatches ==
    \A j \in 1..Len(log.seen) :
        LET k == log.seen[j].idx
        IN  /\ log.calls[k] = (IF log.seen[j].result = None THEN 1 ELSE 0)
            /\ SomeRuleMatches(log.seen[j].store, RowPayee(k)) => log.calls[k] = 0
            /\ ~SomeRuleMatches(log.seen[j].store, RowPayee(k)) => log.calls[k] = 1

\* C2 (amended): the same for the payees that are not blank; for a blank
\* payee handle_uncategorized is invoked once whatever the store holds. A
\* transaction not visited yet has no invocation.
C2_InvokedIffUnclassified ==
    /\ \A j \in 1..Len(log.seen) :
        LET k == log.seen[j].idx
        IN  /\ log.calls[k] = (IF log.seen[j].result = None THEN 1 ELSE 0)
            /\ NonBlank(RowPayee(k)) =>
                 /\ SomeRuleMatches(log.seen[j].store, RowPayee(k))
                      => log.calls[k] = 0
                 /\ ~SomeRuleMatches(log.seen[j].store, RowPayee(k))
                      => log.calls[k] = 1
            /\ ~NonBlank(RowPayee(k)) => log.calls[k] = 1
    /\ \A k \in 1..Len(log.calls) :
          (\A j \in 1..Len(log.seen) : log.seen[j].idx # k) => log.calls[k] = 0

\* C2, witness. A finished run in which the operator was asked about a blank payee that a
\* stored rule matches, and not about a payee a rule classified.
C2_Witness ==
    /\ pc = "done"
    /\ Len(log.seen) = 2
    /\ ~NonBlank(RowPayee(1))
    /\ SomeRuleMatches(log.seen[1].store, RowPayee(1))
    /\ log.calls = <<1, 0>>

HoldsRule(store, rule) ==
    \E c \in 1..Len(store) :
        /\ store[c].category = rule.category
        /\ \E j \in 1..Len(store[c].patterns) :
              store[c].patterns[j] = [payee |-> rule.payee, type |-> rule.type]

\* C7: every update_lookup call that adds a rule rewrites the lookup file with
\* the whole store before it returns, so between two transactions of a run
\* the file equals the store in memory and holds every rule added so far,
\* and a run terminated there, or later at a prompt, leaves them in the file.
C7_FileEqualsStore ==
    BetweenTransactions =>
        /\ lookup_file.exists
        /\ lookup_file.data = lookup_data
        /\ \A rule \in log.added : HoldsRule(lookup_file.data, rule)

\* C7, witness. After the second transaction, with one rule added for each
\* of the two.
C7_Witness ==
    /\ pc = "process_transactions"
    /\ local.idx = 3
    /\ Cardinality(log.added) = 2
    /\ lookup_file.data # <<>>
    /\ lookup_file.data = lookup_data

EmptyLists(list) ==
    [k \in 1..Len(list) |-> [category |-> list[k], patterns |-> <<>>]]

\* C8: constructing a CategoryManager when no lookup file exists initializes
\* the store with one empty rule list for each name of the category list,
\* persists it, and leaves the manager holding it as lookup_data.
C8_NewStoreCreated ==
    (pc # "main" /\ ~log.file_existed) =>
        /\ pc # "AttributeError"
        /\ lookup_data = EmptyLists(arg.category_list)
        /\ lookup_file = [exists |-> TRUE, data |-> lookup_data]

\* C9: collect_category prompts again until the response is in the category
\* list or empty: an empty or all-whitespace response returns the sentinel
\* 'Unspecified' at once, a response in the list returns that category, any
\* other response brings another prompt; what it returns is a valid category
\* or the sentinel.
C9_PromptUntilValidOrEmpty ==
    log.prompt.asked =>
        LET answer == strip(log.prompt.response)
        IN  /\ answer = "" =>
                 log.prompt.returned /\ log.prompt.value = "Unspecified"
            /\ (answer # "" /\ in_list(arg.category_list, answer)) =>
                 log.prompt.returned /\ log.prompt.value = answer
            /\ (answer # "" /\ ~in_list(arg.category_list, answer)) =>
                 ~log.prompt.returned
            /\ log.prompt.returned =>
                 \/ in_list(arg.category_list, log.prompt.value)
                 \/ log.prompt.value = "Unspecified"

-----------------------------------------------------------------------------
(* SpecBlank: categorize_transaction on blank payees and stores whose rules *)
(* match them                                                               *)

BlankCategories == {"Expenses:Misc", "Income:Salary"}

\* Rules that match a blank payee when evaluated: a literal of one space, the
\* empty literal, the empty regex (found in the empty string), a regex of one
\* wildcard; and one that needs a letter.
BlankRules ==
    {[payee |-> " ", type |-> "literal"],
     [payee |-> "", type |-> "literal"],
     [payee |-> "", type |-> "regex"],
     [payee |-> ".", type |-> "regex"],
     [payee |-> "acme", type |-> "literal"]}

BlankPayees == {"", " ", "  ", "\t", " \t ", "ACME Corp", " a "}

InitBlank ==
    /\ pc = "categorize_transaction"
    /\ arg \in [payee : BlankPayees]
    /\ lookup_data \in Stores(BlankCategories, BlankRules, MaxRules)
    /\ lookup_file = [exists |-> FALSE, data |-> <<>>]
    /\ categories_list = <<>>
    /\ account_info = <<>> /\ transactions = <<>> /\ transaction_type = None
    /\ local = <<>> /\ ret = None /\ log = [evaluated |-> <<>>]

CategorizeBlank ==
    /\ pc = "categorize_transaction"
    /\ ret' = categorize_transaction(arg.payee, lookup_data)
    /\ log' = [evaluated |-> categorize_trace(arg.payee, lookup_data)]
    /\ pc' = "returned"
    /\ UNCHANGED <<mgrVars, qifVars, arg, local>>

NextBlank == CategorizeBlank

SpecBlank == InitBlank /\ [][NextBlank]_vars

\* C11: categorize_transaction returns none for every payee that is empty or
\* consists only of whitespace, whatever the store holds (a literal rule " ",
\* an empty pattern or a regex that matches the payee included), and
\* evaluates no rule for it.
C11_BlankPayeeNone ==
    (pc = "returned" /\ ~NonBlank(arg.payee)) =>
        /\ ret = None
        /\ log.evaluated = <<>>

\* C11, witness. The payee of one space against a store whose first category
\* holds the literal rule " " and the regex ".": both match it, the scan
\* would return that category, and none is returned with no rule evaluated.
C11_Witness ==
    /\ pc = "returned"
    /\ arg.payee = " "
    /\ Len(lookup_data) = 2
    /\ lookup_data[1].patterns = <<[payee |-> " ", type |-> "literal"],
                                   [payee |-> ".", type |-> "regex"]>>
    /\ match_pattern(lookup_data[1].patterns[1], arg.payee)
    /\ scan_lookup(arg.payee, lookup_data, 1) = lookup_data[1].category
    /\ ret = None
    /\ log.evaluated = <<>>

-----------------------------------------------------------------------------
(* handle_uncategorized and the lookup store *)

StoreChanges == lookup_data' # lookup_data \/ lookup_file' # lookup_file

\* The operator's input at the pattern prompt was accepted with a pattern that
\* is not empty, and the store now holds it under the chosen category.
AcceptedPattern ==
    \E input \in PatternInputs :
        LET reply == pattern_reply(input, payee(transactions[local.idx]))
        IN  /\ reply.returns
            /\ reply.pattern # None /\ reply.pattern # ""
            /\ strip(input) # ""
            /\ HoldsRule(lookup_data', [category |-> local.category,
                                        payee |-> reply.pattern,
                                        type |-> reply.match_type])

\* C12: in handle_uncategorized, when the operator's chosen category is the
\* sentinel, no pattern is requested (the iteration ends at once) and the
\* store, in memory and in the file, is left unchanged; while transactions are
\* handled the store changes only in a step in which the operator had chosen
\* a category other than the sentinel and supplied a non-empty pattern that
\* was accepted.
C12_StoreChangesOnlyOnAcceptedPattern ==
    [][/\ (/\ pc = "collect_category"
           /\ log'.prompt.returned
           /\ log'.prompt.value = UNCATEGORIZED_ACCOUNT)
          => /\ pc' = "process_transactions"
             /\ local'.idx = local.idx + 1
             /\ ~StoreChanges
       /\ pc' = "collect_pattern"
          => /\ local'.category # UNCATEGORIZED_ACCOUNT
             /\ log'.prompt.value = local'.category
       /\ (pc # "main" /\ StoreChanges)
          => /\ pc = "collect_pattern"
             /\ local.category # UNCATEGORIZED_ACCOUNT
             /\ AcceptedPattern]_vars

\* C12, witness. After two transactions handled by the operator: for the
\* first a category and a pattern that added a rule, for the second the
\* sentinel, which left the store and the file as the first had them.
C12_Witness ==
    /\ pc = "process_transactions"
    /\ local.idx = 3
    /\ log.calls = <<1, 1>>
    /\ log.assigned[1].value # UNCATEGORIZED_ACCOUNT
    /\ Cardinality(log.added) = 1
    /\ log.assigned[2] = [by |-> "operator", value |-> UNCATEGORIZED_ACCOUNT]
    /\ log.prompt.value = UNCATEGORIZED_ACCOUNT
    /\ lookup_data # log.seen[1].store
    /\ lookup_data = lookup_file.data
    /\ \A rule \in log.added : HoldsRule(lookup_data, rule)

-----------------------------------------------------------------------------
(* init_from_qif: header section and transactions *)

\* The k-th line of the file lies in the header section: after an !Account
\* line with no ^ line in between.
InHeader(file, k) ==
    \E j \in 1..(k - 1) :
        /\ strip(file[j]) = AcctHeader
        /\ \A m \in (j + 1)..(k - 1) : strip(file[m]) # RecordEnd

IsTagLine(line) ==
    /\ strip(line) \notin {"", AcctHeader, RecordEnd}
    /\ ~startswith(strip(line), TxnHeader)

\* The ^ lines outside the header section.
OutsideTerminators(file) ==
    {k \in 1..Len(file) : strip(file[k]) = RecordEnd /\ ~InHeader(file, k)}

\* The last !Account line of the file, which resets the header record.
LastAccount(file) ==
    LET at == {k \in 1..Len(file) : strip(file[k]) = AcctHeader}
    IN  IF at = {} THEN 0 ELSE CHOOSE k \in at : \A m \in at : m <= k

\* The record a tag line outside the header section belongs to: the
\* transaction the next ^ closes, or the one still open at the end.
RecordOfLine(file, k) ==
    LET n == Cardinality({t \in OutsideTerminators(file) : t < k}) + 1
    IN  IF n <= Len(transactions) THEN transactions[n]
        ELSE local.current_transaction

SectionsAndTerminators ==
    /\ Len(transactions) = Cardinality(OutsideTerminators(arg.file))
    /\ \A k \in 1..Len(arg.file) :
          IsTagLine(arg.file[k]) =>
              IF InHeader(arg.file, k)
              THEN k > LastAccount(arg.file) =>
                       has_key(account_info, Char(strip(arg.file[k]), 1))
              ELSE has_key(RecordOfLine(arg.file, k),
                           Char(strip(arg.file[k]), 1))
    /\ \A n \in 1..Len(transactions) : has_key(transactions[n], RecordEnd)
    /\ local.in_account_section = "True"
          <=> InHeader(arg.file, Len(arg.file) + 1)

\* C13: for every sequence of lines given to init_from_qif, those in which a
\* tag line or a ^ line comes before any !Account line included, each tag line
\* is stored into the header record exactly when it lies between an !Account
\* line and the next ^ line and otherwise into the open transaction, a ^ in
\* the header section closes the header, and the number of parsed transactions
\* equals the number of ^ lines outside the header section.
C13_SectionsAndTerminators ==
    pc # "init_from_qif" =>
        /\ pc \in {"parsed", "written"}
        /\ SectionsAndTerminators

\* C13, where the code meets it: the files whose first tag line or ^ line
\* comes after an !Account line, which init_from_qif reads to the end.
C13_AfterAccountLine ==
    pc \in {"parsed", "written"} => SectionsAndTerminators

\* A file with a transaction and no !Account line before it: init_from_qif
\* raises UnboundLocalError at its first tag line and parses no transaction.
C13_UnboundFlag ==
    /\ pc = "UnboundLocalError"
    /\ arg.file = <<"!Type:Bank", "PAcme  Inc", "T-1.00", "^">>
    /\ transactions = <<>>
    /\ OutsideTerminators(arg.file) = {4}

-----------------------------------------------------------------------------
(* Rules learned within one run *)

\* The store as handling of the i-th transaction left it.
StoreAfter(i) ==
    IF i < Len(log.seen) THEN log.seen[i + 1].store ELSE lookup_data

\* Handling the i-th transaction registered a rule: the operator classified
\* it and update_lookup changed the store.
Registered(i) ==
    /\ i <= Len(log.assigned)
    /\ log.assigned[i].by = "operator"
    /\ StoreAfter(i) # log.seen[i].store

\* The rule handling of the m-th transaction registered: the last of its
\* category's list.
AddedRule(m) ==
    LET store == StoreAfter(m)
        c == key_index(store, log.assigned[m].value)
    IN  store[c].patterns[Len(store[c].patterns)]

\* The transactions between the i-th and the j-th whose handling registered,
\* under a category the store iterates before the i-th's, a rule that matches
\* the payee p too.
Shadows(i, j, p) ==
    {m \in (i + 1)..(j - 1) :
        /\ Registered(m)
        /\ match_pattern(AddedRule(m), p)
        /\ key_index(log.seen[j].store, log.assigned[m].value)
             < key_index(log.seen[j].store, log.assigned[i].value)}

FirstShadow(i, j, p) ==
    LET S == Shadows(i, j, p)
        at(m) == key_index(log.seen[j].store, log.assigned[m].value)
    IN  log.assigned[CHOOSE m \in S : \A n \in S : at(m) <= at(n)].value

\* C14 (as stated): once handling a transaction with payee p has registered a
\* rule under category c, every later transaction of the run with the same
\* payee is classified by the matcher, without the operator, and receives c,
\* whatever rules were registered for the transactions in between.
C14_LearnedPayeeSameCategory ==
    \A i, j \in 1..Len(log.seen) :
        (i < j /\ Registered(i) /\ RowPayee(i) = RowPayee(j)) =>
            /\ log.calls[j] = 0
            /\ j <= Len(log.assigned) =>
                  /\ log.assigned[j] = [by |-> "matcher",
                                        value |-> log.assigned[i].value]
                  /\ CategoryField(j) = log.assigned[i].value

\* C14: once handling a transaction with a non-blank payee p has registered a
\* rule under category c, every later transaction of the run with the same
\* payee is classified by the matcher, without the operator; it receives c
\* unless a rule registered in between under a category the store iterates
\* before c matches p too, and then the first such category. A blank payee is
\* handed to the operator every time.
C14_LearnedPayeeFirstMatch ==
    \A i, j \in 1..Len(log.seen) :
        (i < j /\ Registered(i) /\ RowPayee(i) = RowPayee(j)) =>
            IF NonBlank(RowPayee(i))
            THEN /\ log.calls[j] = 0
                 /\ j <= Len(log.assigned) =>
                       LET category ==
                               IF Shadows(i, j, RowPayee(i)) = {}
                               THEN log.assigned[i].value
                               ELSE FirstShadow(i, j, RowPayee(i))
                       IN  /\ log.assigned[j] = [by |-> "matcher",
                                                 value |-> category]
                           /\ CategoryField(j) = category
            ELSE log.calls[j] = 1

\* C14, witness. Three transactions: the operator registers a literal rule
\* for the first payee under one category and a rule for the second payee
\* under another, and the third, with the first's payee, is classified by the
\* matcher with the first's category.
C14_Witness ==
    /\ pc = "done"
    /\ Len(log.seen) = 3
    /\ RowPayee(1) = "ACME Corp" /\ RowPayee(2) = "Shell"
    /\ RowPayee(3) = "ACME Corp"
    /\ Registered(1) /\ Registered(2)
    /\ AddedRule(1) = [payee |-> "acme", type |-> "literal"]
    /\ log.assigned[1].value # log.assigned[2].value
    /\ log.calls = <<1, 1, 0>>
    /\ log.assigned[3] = [by |-> "matcher", value |-> log.assigned[1].value]
    /\ CategoryField(3) = CategoryField(1)

\* A later transaction with the learned payee receives another category: the
\* rule "." was registered in between under a category the store iterates
\* first.
C14_ShadowedByEarlierCategory ==
    /\ pc = "done"
    /\ Len(log.seen) = 3
    /\ RowPayee(1) = RowPayee(3) /\ NonBlank(RowPayee(1))
    /\ Registered(1)
    /\ Shadows(1, 3, RowPayee(1)) = {2}
    /\ log.assigned[3].by = "matcher"
    /\ CategoryField(3) = CategoryField(2)
    /\ CategoryField(3) # CategoryField(1)

=============================================================================
